---- MODULE Spec2Model ----
(***************************************************************************)
(* ReActMCP tool servers: servers/exa_web_search.py (the "websearch" MCP   *)
(* server: search_web, advanced_search_web) and servers/fire_crawl.py (the *)
(* "firecrawl" MCP server: scrape_url, crawl_website, check_crawl_status,  *)
(* map_website, extract_structured_data).                                  *)
(*                                                                         *)
(* Conventions.                                                            *)
(*  - A Python optional value is a sequence of length 0 or 1: << >> is     *)
(*    None or an absent key/attribute, <<v>> is the value v.               *)
(*  - A Python str built by concatenation / f-strings is the sequence of   *)
(*    its pieces: every literal segment of the source and every            *)
(*    interpolated value is one piece, in order.                           *)
(*  - A computation that may raise is [ok |-> TRUE, val |-> v] or          *)
(*    [ok |-> FALSE, val |-> msg], msg being str(e).                       *)
(*  - A backquote of a source literal is written ' (the lexer of TLA+     *)
(*    takes no backquote in a string).                                     *)
(*  - What the external client returns is [kind |-> "raise", msg |-> m],   *)
(*    [kind |-> "none"] (the value None) or a payload with kind "dict" /   *)
(*    "object".                                                            *)
(***************************************************************************)
EXTENDS Integers, Sequences, FiniteSets

VARIABLES
    server,         \* which of the two server modules this process runs
    api_key,        \* fire_crawl.py: module global api_key
    firecrawl_app,  \* fire_crawl.py: module global firecrawl_app (0 is None)
    exa,            \* exa_web_search.py: module global exa ("client" / "import_failed")
    pending,        \* tool invocations in flight: awaited, body not yet run
    calls,          \* number of tool invocations received so far
    last,           \* the invocation that completed last, with what it did
    constructed,    \* history: number of FirecrawlApp objects constructed
    missing_reports,\* history: completed invocations whose report carries the missing-key message
    issued,         \* history: job ids crawl_website reported to the caller
    terminal_seen,  \* history: job ids for which a check reported completed/failed
    fmt_kind,       \* formatter harness: which response kind is being formatted
    fmt_in,         \* formatter harness: the raw payload
    fmt_out         \* formatter harness: << >> before formatting, <<result>> after

serverVars == <<server, api_key, firecrawl_app, exa, pending, calls, last,
                constructed, missing_reports, issued, terminal_seen>>
fmtVars == <<fmt_kind, fmt_in, fmt_out>>
vars == <<server, api_key, firecrawl_app, exa, pending, calls, last,
          constructed, missing_reports, issued, terminal_seen,
          fmt_kind, fmt_in, fmt_out>>

----------------------------------------------------------------------------
(* Bounds of the model *)

\* longest search result sequence the provider returns
MaxResults == 2
\* longest list of crawled pages in a status snapshot
MaxPages == 2
\* longest list of links in a map result
MaxLinks == 2
\* most tool invocations in flight at once
MaxInFlight == 2
\* most tool invocations a run receives
MaxCalls == 3

----------------------------------------------------------------------------
(* Python values *)

None == << >>

Some(x) == <<x>>

\* truthiness of an optional str: None and "" are falsy
TruthyStr(o) == o # << >> /\ o[1] # ""

\* truthiness of an optional int: None and 0 are falsy
TruthyInt(o) == o # << >> /\ o[1] # 0

\* truthiness of an optional list: None and [] are falsy
TruthyList(o) == o # << >> /\ o[1] # << >>

\* truthiness of an optional bool: None and False are falsy
TruthyBool(o) == o # << >> /\ o[1]

\* dict.get(key, default) on an optional str entry
GetOr(o, default) == IF o = << >> THEN default ELSE o[1]

\* str(n) for the small naturals the model renders
IntStr(n) == <<"0", "1", "2", "3", "4", "5", "6", "7", "8", "9">>[n + 1]

Ok(v) == [ok |-> TRUE, val |-> v]

Raised(msg) == [ok |-> FALSE, val |-> msg]

\* str(e) of the AttributeError a method call / attribute read on None raises
NoneGetError == "'NoneType' object has no attribute 'get'"

NoneResultsError == "'NoneType' object has no attribute 'results'"

\* str(e) of the AttributeError reading result.url on an entry without one
NoUrlError == "'Result' object has no attribute 'url'"

\* a str holds at least one character
NonEmptyText(t) == \E i \in 1..Len(t) : t[i] # ""

\* the pieces of t equal to p, by position
Positions(t, p) == {i \in 1..Len(t) : t[i] = p}

\* the k-th smallest member of a set of naturals
RECURSIVE Nth(_, _)
Nth(S, k) ==
    LET m == CHOOSE x \in S : \A y \in S : x <= y
    IN  IF k = 1 THEN m ELSE Nth(S \ {m}, k - 1)

\* all sequences over S of length at most n
SeqsUpTo(S, n) == UNION {[1..k -> S] : k \in 0..n}

----------------------------------------------------------------------------
(* servers/exa_web_search.py *)

\* websearch_config["parameters"]["default_num_results"]
default_num_results == 5

\* websearch_config["parameters"]["include_domains"]
config_include_domains == << >>

\* datetime.now() - timedelta(days = n)
MinusDays(dt, n) == [dt EXCEPT !.day = dt.day - n]

\* strftime("%Y-%m-%dT%H:%M:%SZ"): date and time of day to the second, the
\* microseconds dropped, the literal suffix Z appended
Strftime(dt) == [date |-> dt.day, time |-> dt.second, suffix |-> "Z"]

\* search_args built from the configuration alone
search_web_args_config_only(num_results) ==
    [num_results |-> default_num_results,
     include_domains |-> None,
     include_text |-> None,
     start_published_date |-> None]

\* search_web: the keyword arguments built for exa.search_and_contents
search_web_args(num_results) ==
    [num_results |-> IF TruthyInt(num_results) THEN num_results[1]
                     ELSE default_num_results,
     include_domains |-> None,
     include_text |-> None,
     start_published_date |-> None]

\* advanced_search_web: the keyword arguments built for
\* exa.search_and_contents; now is what datetime.now() reads
advanced_search_web_args(num_results, include_domains, include_text, max_age_days, now) ==
    [num_results |-> IF TruthyInt(num_results) THEN num_results[1]
                     ELSE default_num_results,
     include_domains |->
        IF TruthyList(include_domains) THEN include_domains
        ELSE IF config_include_domains # << >>
             THEN Some(config_include_domains)
             ELSE None,
     include_text |->
        IF TruthyStr(include_text) THEN Some(<<include_text[1]>>) ELSE None,
     start_published_date |->
        IF TruthyInt(max_age_days)
        THEN Some(Strftime(MinusDays(now, max_age_days[1])))
        ELSE None]

\* the call exa.search_and_contents(query, summary = {...}, **search_args)
SearchRequest(query, search_args) ==
    [method |-> "search_and_contents", query |-> query,
     summary |-> "Main points and key takeaways", kwargs |-> search_args]

\* one iteration of the loop of format_search_results
search_entry_text(result, idx) ==
    LET title == IF TruthyStr(result.title) THEN result.title[1] ELSE "No title"
        published_date ==
            IF TruthyStr(result.published_date)
            THEN <<" (Published: ", result.published_date[1], ")">>
            ELSE <<"">>
    IN  <<"**", IntStr(idx), ".** [", title, "](", result.url[1], ")">>
        \o published_date \o <<"\n">>
        \o (IF TruthyStr(result.summary)
            THEN <<"> **Summary:** ", result.summary[1], "\n\n">>
            ELSE <<"\n">>)

\* the first index enumerate(search_results.results, 1) hands out
FirstIndexZero(results) == 0

FirstIndex(results) == 1

RECURSIVE search_entries_text(_, _)
search_entries_text(results, idx) ==
    IF results = << >> THEN << >>
    ELSE search_entry_text(Head(results), idx)
         \o search_entries_text(Tail(results), idx + 1)

format_search_results(search_results) ==
    IF search_results.kind = "none" THEN Raised(NoneResultsError)
    ELSE IF ~TruthyList(search_results.results) THEN Ok(<<"No results found.">>)
    ELSE LET results == search_results.results[1]
         IN  IF \E i \in 1..Len(results) : results[i].url = None
             THEN Raised(NoUrlError)
             ELSE Ok(<<"### Search Results:\n\n">>
                     \o search_entries_text(results, FirstIndex(results)))

\* try: ... except Exception as e: return f"<prefix>{e}"
TryExceptPropagates(body, prefix) ==
    IF body.ok
    THEN [outcome |-> "returned", report |-> body.val, caught |-> FALSE]
    ELSE [outcome |-> "raised", report |-> <<body.val>>, caught |-> FALSE]

TryExcept(body, prefix) ==
    IF body.ok
    THEN [outcome |-> "returned", report |-> body.val, caught |-> FALSE]
    ELSE [outcome |-> "returned", report |-> prefix \o <<body.val>>, caught |-> TRUE]

\* what one tool invocation did: how it ended, the str it returned, whether
\* the except clause ran, the calls it made on the client, the client
\* handle it used (0: none)
Invocation(result, sent, app) ==
    [outcome |-> result.outcome, report |-> result.report,
     caught |-> result.caught, sent |-> sent, app |-> app]

\* the body of search_web / advanced_search_web after search_args is
\* built: the client call, then the formatter
search_body(resp) ==
    IF resp.kind = "raise" THEN Raised(resp.msg)
    ELSE format_search_results(resp)

search_web(query, num_results, resp) ==
    Invocation(TryExcept(search_body(resp),
                         <<"An error occurred while searching with Exa: ">>),
               <<SearchRequest(query, search_web_args(num_results))>>, 0)

advanced_search_web(query, num_results, include_domains, include_text, max_age_days, now, resp) ==
    Invocation(TryExcept(search_body(resp),
                         <<"An error occurred while searching with Exa: ">>),
               <<SearchRequest(query,
                    advanced_search_web_args(num_results, include_domains,
                                             include_text, max_age_days, now))>>,
               0)

----------------------------------------------------------------------------
(* servers/fire_crawl.py *)

\* str(e) of the ValueError get_firecrawl_app raises
MissingKeyMsg ==
    "FIRECRAWL_API_KEY environment variable not set. Please set this variable in a .env file or system environment."

\* get_firecrawl_app without the test that the handle is None
get_firecrawl_app_always_constructs ==
    IF api_key = None
    THEN [ok |-> FALSE, val |-> MissingKeyMsg, app |-> firecrawl_app, built |-> FALSE]
    ELSE [ok |-> TRUE, val |-> constructed + 1, app |-> constructed + 1, built |-> TRUE]

\* get_firecrawl_app without the test on api_key
get_firecrawl_app_no_key_check ==
    IF firecrawl_app = 0
    THEN [ok |-> TRUE, val |-> constructed + 1, app |-> constructed + 1, built |-> TRUE]
    ELSE [ok |-> TRUE, val |-> firecrawl_app, app |-> firecrawl_app, built |-> FALSE]

\* get_firecrawl_app: val is the handle returned or str(e); app is
\* the global firecrawl_app afterwards; built says FirecrawlApp(api_key =
\* api_key) ran. The k-th FirecrawlApp constructed is the handle k.
get_firecrawl_app ==
    IF firecrawl_app = 0
    THEN IF api_key = None
         THEN [ok |-> FALSE, val |-> MissingKeyMsg, app |-> 0, built |-> FALSE]
         ELSE [ok |-> TRUE, val |-> constructed + 1, app |-> constructed + 1,
               built |-> TRUE]
    ELSE [ok |-> TRUE, val |-> firecrawl_app, app |-> firecrawl_app, built |-> FALSE]

\* {} where a .get(key, {}) finds no key
EmptyMetadata == [title |-> None, description |-> None, sourceURL |-> None]

EmptyData == [markdown |-> None, metadata |-> None]

format_markdown_with_metadata(response) ==
    IF response.kind = "none" THEN Raised(NoneGetError)
    ELSE IF ~TruthyBool(response.success)
    THEN Ok(<<"Error: Failed to retrieve data. ", GetOr(response.error, "")>>)
    ELSE LET data == GetOr(response.data, EmptyData)
             markdown == GetOr(data.markdown, "")
             metadata == GetOr(data.metadata, EmptyMetadata)
         IN  Ok(<<"# ", GetOr(metadata.title, "Scraped Content"), "\n\n">>
                \o (IF TruthyStr(metadata.description)
                    THEN <<"*", metadata.description[1], "*\n\n">>
                    ELSE << >>)
                \o <<"**Source URL:** ", GetOr(metadata.sourceURL, "Unknown"), "\n\n",
                     "---\n\n", markdown>>)

\* a dict status is falsy: it has no key at all
EmptyStatus(status) ==
    /\ status.status = None /\ status.totalCount = None
    /\ status.creditsUsed = None /\ status.expiresAt = None
    /\ status.data = None /\ ~status.other

\* the page loop numbering a page idx, not idx + 1
RECURSIVE crawled_pages_text_zero_based(_, _)
crawled_pages_text_zero_based(pages, idx) ==
    IF idx >= Len(pages) THEN << >>
    ELSE LET metadata == GetOr(pages[idx + 1].metadata, EmptyMetadata)
         IN  <<IntStr(idx), ". **", GetOr(metadata.title, "Unknown Title"), "**\n",
               "   URL: ", GetOr(metadata.sourceURL, "Unknown URL"), "\n">>
             \o crawled_pages_text_zero_based(pages, idx + 1)

\* the page loop of format_crawl_status, pages[idx + 1..]
RECURSIVE crawled_pages_text(_, _)
crawled_pages_text(pages, idx) ==
    IF idx >= Len(pages) THEN << >>
    ELSE LET metadata == GetOr(pages[idx + 1].metadata, EmptyMetadata)
         IN  <<IntStr(idx + 1), ". **", GetOr(metadata.title, "Unknown Title"), "**\n",
               "   URL: ", GetOr(metadata.sourceURL, "Unknown URL"), "\n">>
             \o crawled_pages_text(pages, idx + 1)

\* format_crawl_status from its first += on: the status block
crawl_status_block(status) ==
    <<"# Crawl Status\n\n",
      "**Current Status:** ", GetOr(status.status, "Unknown"), "\n",
      "**Total Pages:** ", IntStr(GetOr(status.totalCount, 0)), "\n",
      "**Credits Used:** ", IntStr(GetOr(status.creditsUsed, 0)), "\n">>
    \o (IF TruthyStr(status.expiresAt)
        THEN <<"**Expires At:** ", status.expiresAt[1], "\n">>
        ELSE << >>)
    \o (IF TruthyList(status.data)
        THEN <<"\n## Crawled Pages: ", IntStr(Len(status.data[1])), "\n\n">>
             \o crawled_pages_text(status.data[1], 0)
        ELSE << >>)

format_crawl_status(status) ==
    IF status.kind = "none" \/ EmptyStatus(status)
    THEN Ok(<<"Error: Failed to retrieve crawl status.">>)
    ELSE Ok(crawl_status_block(status))

\* the link loop of format_mapped_links, links[idx + 1..]
RECURSIVE mapped_links_text(_, _)
mapped_links_text(links, idx) ==
    IF idx >= Len(links) THEN << >>
    ELSE <<IntStr(idx + 1), ". ", links[idx + 1], "\n">>
         \o mapped_links_text(links, idx + 1)

\* format_mapped_links reading map_result['links'] by subscript: the
\* KeyError of an absent key
format_mapped_links_subscript(map_result) ==
    IF map_result.kind = "none" THEN Raised(NoneGetError)
    ELSE IF ~TruthyBool(map_result.success)
    THEN Ok(<<"Error: Failed to map the website. ", GetOr(map_result.error, "")>>)
    ELSE IF map_result.links = None THEN Raised("'links'")
    ELSE Ok(<<"# Website Map Results\n\n",
              "Found ", IntStr(Len(map_result.links[1])), " links:\n\n">>
            \o mapped_links_text(map_result.links[1], 0))

format_mapped_links(map_result) ==
    IF map_result.kind = "none" THEN Raised(NoneGetError)
    ELSE IF ~TruthyBool(map_result.success)
    THEN Ok(<<"Error: Failed to map the website. ", GetOr(map_result.error, "")>>)
    ELSE LET links == GetOr(map_result.links, << >>)
         IN  Ok(<<"# Website Map Results\n\n",
                  "Found ", IntStr(Len(links)), " links:\n\n">>
                \o mapped_links_text(links, 0))

\* str(e) of the TypeError json.dumps raises on a value it cannot serialize
NotSerializableError == "Object of type set is not JSON serializable"

\* json.dumps(value, indent = 2): the pretty-printed text of a value, "{}"
\* for the default {} of data.get('data', {})
JsonDumps(value) ==
    IF value = None THEN Ok("{}")
    ELSE IF ~value[1].serializable THEN Raised(NotSerializableError)
    ELSE Ok(value[1].pretty)

\* extract_structured_data from the test of success on: the extraction
\* result formatted
format_extraction(data) ==
    IF data.kind = "none" THEN Raised(NoneGetError)
    ELSE IF ~TruthyBool(data.success)
    THEN Ok(<<"Error: Failed to extract structured data. ", GetOr(data.error, "")>>)
    ELSE LET dumped == JsonDumps(data.data)
         IN  IF ~dumped.ok THEN dumped
             ELSE Ok(<<"# Extracted Structured Data\n\n",
                       "'''json\n", dumped.val, "\n'''">>)

\* the report of the crawl start testing jobId against None only
crawl_started_report_none_only(crawl_result) ==
    IF crawl_result.kind = "none" THEN Raised(NoneGetError)
    ELSE IF crawl_result.jobId = None
    THEN Ok(<<"Error: Failed to start crawl job. ", GetOr(crawl_result.error, "")>>)
    ELSE Ok(<<"# Crawl Job Started\n\n",
              "**Job ID:** ", crawl_result.jobId[1], "\n\n",
              "To check the status of this crawl, use the 'check_crawl_status' tool with this Job ID.">>)

\* crawl_website from the read of jobId on: the report of the crawl start
crawl_started_report(crawl_result) ==
    IF crawl_result.kind = "none" THEN Raised(NoneGetError)
    ELSE IF ~TruthyStr(crawl_result.jobId)
    THEN Ok(<<"Error: Failed to start crawl job. ", GetOr(crawl_result.error, "")>>)
    ELSE Ok(<<"# Crawl Job Started\n\n",
              "**Job ID:** ", crawl_result.jobId[1], "\n\n",
              "To check the status of this crawl, use the 'check_crawl_status' tool with this Job ID.">>)

\* the try block of a firecrawl tool: get_firecrawl_app(), the client
\* call, then the formatting of what it returned
firecrawl_body(got, resp, formatted) ==
    IF ~got.ok THEN Raised(got.val)
    ELSE IF resp.kind = "raise" THEN Raised(resp.msg)
    ELSE formatted

\* the client calls a firecrawl tool makes: one if it got the handle
firecrawl_sent(got, request) ==
    IF got.ok THEN <<[request EXCEPT !.app = got.val]>> ELSE << >>

scrape_url(url, formats, resp) ==
    LET got == get_firecrawl_app
    IN  Invocation(
            TryExcept(firecrawl_body(got, resp, format_markdown_with_metadata(resp)),
                      <<"An error occurred while scraping ", url, ": ">>),
            firecrawl_sent(got, [method |-> "scrape_url", app |-> 0, url |-> url,
                                 params |-> [formats |-> formats]]),
            IF got.ok THEN got.val ELSE 0)

crawl_website(url, limit, max_depth, formats, resp) ==
    LET got == get_firecrawl_app
    IN  Invocation(
            TryExcept(firecrawl_body(got, resp, crawl_started_report(resp)),
                      <<"An error occurred while starting the crawl job for ", url, ": ">>),
            firecrawl_sent(got, [method |-> "crawl_url", app |-> 0, url |-> url,
                                 params |-> [limit |-> limit, maxDepth |-> max_depth,
                                             scrapeOptions |-> [formats |-> formats]]]),
            IF got.ok THEN got.val ELSE 0)

\* check_crawl_status answering from memory for a job already seen
\* completed or failed: no query, a stored report
check_crawl_status_cached(job_id, resp) ==
    LET got == get_firecrawl_app
    IN  IF got.ok /\ job_id \in terminal_seen
        THEN Invocation([outcome |-> "returned", caught |-> FALSE,
                         report |-> <<"# Crawl Status\n\n", "**Current Status:** ",
                                      "completed", "\n">>],
                        << >>, got.val)
        ELSE Invocation(
                TryExcept(firecrawl_body(got, resp, format_crawl_status(resp)),
                          <<"An error occurred while checking the crawl status for job ",
                            job_id, ": ">>),
                firecrawl_sent(got, [method |-> "check_crawl_status", app |-> 0,
                                     job_id |-> job_id]),
                IF got.ok THEN got.val ELSE 0)

check_crawl_status(job_id, resp) ==
    LET got == get_firecrawl_app
    IN  Invocation(
            TryExcept(firecrawl_body(got, resp, format_crawl_status(resp)),
                      <<"An error occurred while checking the crawl status for job ",
                        job_id, ": ">>),
            firecrawl_sent(got, [method |-> "check_crawl_status", app |-> 0,
                                 job_id |-> job_id]),
            IF got.ok THEN got.val ELSE 0)

map_website(url, include_subdomains, resp) ==
    LET got == get_firecrawl_app
    IN  Invocation(
            TryExcept(firecrawl_body(got, resp, format_mapped_links(resp)),
                      <<"An error occurred while mapping the website ", url, ": ">>),
            firecrawl_sent(got, [method |-> "map_url", app |-> 0, url |-> url,
                                 params |-> [includeSubdomains |-> include_subdomains]]),
            IF got.ok THEN got.val ELSE 0)

extract_structured_data(urls, prompt, schema, resp) ==
    LET got == get_firecrawl_app
    IN  Invocation(
            TryExcept(firecrawl_body(got, resp, format_extraction(resp)),
                      <<"An error occurred while extracting structured data: ">>),
            firecrawl_sent(got, [method |-> "extract", app |-> 0, urls |-> urls,
                                 params |-> [prompt |-> prompt, schema |-> schema]]),
            IF got.ok THEN got.val ELSE 0)

----------------------------------------------------------------------------
(* What the external service clients return: the raw payload shapes *)

RaiseResp(m) == [kind |-> "raise", msg |-> m]

NoneResp == [kind |-> "none"]

\* an Exa result entry; url None: the attribute is missing
SearchEntries ==
    [title : {None, Some(""), Some("T")},
     url : {Some("https://a.example"), Some("https://b.example")},
     published_date : {None, Some("2025-01-01")},
     summary : {None, Some("S")}]

SearchObj(results) == [kind |-> "object", results |-> results]

\* every search response of at most MaxResults entries
SearchPayloads ==
    {SearchObj(None)} \cup {SearchObj(Some(rs)) : rs \in SeqsUpTo(SearchEntries, MaxResults)}

BareEntry ==
    [title |-> None, url |-> Some("https://a.example"), published_date |-> None,
     summary |-> None]

FullEntry ==
    [title |-> Some("T"), url |-> Some("https://b.example"),
     published_date |-> Some("2025-01-01"), summary |-> Some("S")]

\* what exa.search_and_contents does in the server runs
SearchResponses ==
    {RaiseResp("401 Unauthorized"), NoneResp, SearchObj(None), SearchObj(Some(<< >>)),
     SearchObj(Some(<<BareEntry>>)), SearchObj(Some(<<FullEntry, BareEntry>>)),
     SearchObj(Some(<<[BareEntry EXCEPT !.url = None]>>))}

\* what exa.search_and_contents does in the runs of advanced_search_web
AdvancedSearchResponses ==
    {RaiseResp("401 Unauthorized"), SearchObj(Some(<< >>)),
     SearchObj(Some(<<FullEntry, BareEntry>>))}

Metadatas ==
    [title : {None, Some("T")}, description : {None, Some(""), Some("D")},
     sourceURL : {None, Some("https://a.example")}]

ScrapeDatas ==
    [markdown : {None, Some("md")}, metadata : {None} \cup {Some(m) : m \in Metadatas}]

\* every scrape payload
ScrapePayloads ==
    [kind : {"dict"}, success : {None, Some(TRUE), Some(FALSE)},
     error : {None, Some("blocked")},
     data : {None} \cup {Some(d) : d \in ScrapeDatas}]

EmptyScrape == [kind |-> "dict", success |-> None, error |-> None, data |-> None]

\* what app.scrape_url does in the server runs
ScrapeResponses ==
    {RaiseResp("timeout"), NoneResp, EmptyScrape,
     [EmptyScrape EXCEPT !.success = Some(FALSE), !.error = Some("blocked")],
     [EmptyScrape EXCEPT !.success = Some(TRUE)],
     [EmptyScrape EXCEPT !.success = Some(TRUE),
        !.data = Some([markdown |-> Some("md"),
                       metadata |-> Some([title |-> Some("T"), description |-> Some("D"),
                                          sourceURL |-> Some("https://a.example")])])]}

\* a crawled page of a status snapshot
Pages ==
    {[metadata |-> None]}
    \cup {[metadata |-> Some([title |-> t, description |-> None, sourceURL |-> u])] :
            t \in {None, Some("P")}, u \in {None, Some("https://a.example/p")}}

\* every crawl status snapshot; other: the dict holds a key the formatter
\* does not read
StatusPayloads ==
    [kind : {"dict"},
     status : {None, Some("scraping"), Some("completed"), Some("failed")},
     totalCount : {None, Some(0), Some(7)},
     creditsUsed : {None, Some(3)},
     expiresAt : {None, Some(""), Some("2025-02-01T00:00:00.000Z")},
     data : {None} \cup {Some(ps) : ps \in SeqsUpTo(Pages, MaxPages)},
     other : BOOLEAN]

EmptySnapshot ==
    [kind |-> "dict", status |-> None, totalCount |-> None, creditsUsed |-> None,
     expiresAt |-> None, data |-> None, other |-> FALSE]

\* what app.check_crawl_status does in the server runs
StatusResponses ==
    {RaiseResp("Job not found"), NoneResp, EmptySnapshot,
     [EmptySnapshot EXCEPT !.other = TRUE],
     [EmptySnapshot EXCEPT !.status = Some("scraping"), !.totalCount = Some(7)],
     [EmptySnapshot EXCEPT !.status = Some("completed"), !.totalCount = Some(7),
        !.creditsUsed = Some(3), !.expiresAt = Some("2025-02-01T00:00:00.000Z"),
        !.data = Some(<<[metadata |-> None]>>)],
     [EmptySnapshot EXCEPT !.status = Some("failed")]}

\* every map result of at most MaxLinks links
MapPayloads ==
    [kind : {"dict"}, success : {None, Some(TRUE), Some(FALSE)},
     error : {None, Some("blocked")},
     links : {None} \cup {Some(ls) : ls \in SeqsUpTo({"https://a.example/1",
                                                       "https://a.example/2"}, MaxLinks)}]

EmptyMap == [kind |-> "dict", success |-> None, error |-> None, links |-> None]

\* what app.map_url does in the server runs
MapResponses ==
    {RaiseResp("timeout"), NoneResp, EmptyMap,
     [EmptyMap EXCEPT !.success = Some(FALSE), !.error = Some("blocked")],
     [EmptyMap EXCEPT !.success = Some(TRUE)],
     [EmptyMap EXCEPT !.success = Some(TRUE),
        !.links = Some(<<"https://a.example/1", "https://a.example/2">>)]}

\* an extracted value: its pretty-printed JSON, or one json.dumps rejects
ExtractedValues ==
    {[serializable |-> TRUE, pretty |-> "{ 'name': 'x' }"],
     [serializable |-> FALSE, pretty |-> ""]}

\* every extraction result
ExtractPayloads ==
    [kind : {"dict"}, success : {None, Some(TRUE), Some(FALSE)},
     error : {None, Some("blocked")},
     data : {None} \cup {Some(v) : v \in ExtractedValues}]

\* what app.extract does in the server runs
ExtractResponses == {RaiseResp("timeout"), NoneResp} \cup ExtractPayloads

\* every response to a crawl start
CrawlPayloads ==
    [kind : {"dict"}, jobId : {None, Some(""), Some("job-1")},
     error : {None, Some("quota exceeded")}]

\* what app.crawl_url does in the server runs
CrawlResponses == {RaiseResp("timeout"), NoneResp} \cup CrawlPayloads

\* the job ids a caller polls: one the provider hands out, one it never does
JobIds == {"job-1", "job-2"}

\* the readings of datetime.now(): a day number, the second of the day, the
\* microsecond
Clock == [day : {100}, second : {59}, micro : {0, 250}]

\* the num_results a caller passes: omitted, 0, below and at the default
NumResultsArgs == {None, Some(0), Some(3), Some(5)}

----------------------------------------------------------------------------
(* The server process.  A tool is an async def without an await in its    *)
(* body: once the event loop runs an invocation, its whole body runs      *)
(* before any other invocation does.  An invocation is in flight from the *)
(* call to that run.  The caller's arguments and the provider's answer    *)
(* do not depend on the wait, and are drawn when the body runs.           *)

FirecrawlTools ==
    {"scrape_url", "crawl_website", "check_crawl_status", "map_website",
     "extract_structured_data"}

WebsearchTools == {"search_web", "advanced_search_web"}

Tools == FirecrawlTools \cup WebsearchTools

ServerTools == IF server = "firecrawl" THEN FirecrawlTools ELSE WebsearchTools

RECURSIVE SumOver(_, _)
SumOver(f, S) ==
    IF S = {} THEN 0
    ELSE LET t == CHOOSE x \in S : TRUE IN f[t] + SumOver(f, S \ {t})

InFlight == SumOver(pending, Tools)

Completed == calls - InFlight

NoInvocation == [tool |-> "none"]

\* the record kept of a completed invocation
Done(tool, args, resp, inv, built) ==
    [tool |-> tool, args |-> args, resp |-> resp, outcome |-> inv.outcome,
     report |-> inv.report, caught |-> inv.caught, sent |-> inv.sent,
     app |-> inv.app, built |-> built]

ReportsMissingKey(inv) == \E i \in 1..Len(inv.report) : inv.report[i] = MissingKeyMsg

StartedJobs(resp, inv) ==
    IF inv.caught \/ inv.report[1] # "# Crawl Job Started\n\n" THEN {}
    ELSE {resp.jobId[1]}

TerminalJobs(job_id, resp, inv) ==
    IF ~inv.caught /\ resp.kind = "dict"
       /\ resp.status \in {Some("completed"), Some("failed")}
    THEN {job_id} ELSE {}

Init ==
    /\ server \in {"firecrawl", "websearch"}
    /\ api_key \in (IF server = "firecrawl" THEN {None, Some("fc-key")} ELSE {None})
    /\ firecrawl_app = 0
    /\ exa \in (IF server = "websearch" THEN {"client", "import_failed"} ELSE {"absent"})
    /\ pending = [t \in Tools |-> 0]
    /\ calls = 0
    /\ last = NoInvocation
    /\ constructed = 0
    /\ missing_reports = 0
    /\ issued = {}
    /\ terminal_seen = {}
    /\ fmt_kind = "none"
    /\ fmt_in = NoneResp
    /\ fmt_out = << >>

\* the tool-invocation transport hands the server a call of tool t
Call(t) ==
    /\ t \in ServerTools
    /\ server = "websearch" => exa = "client"
    /\ calls < MaxCalls
    /\ InFlight < MaxInFlight
    /\ pending' = [pending EXCEPT ![t] = @ + 1]
    /\ calls' = calls + 1
    /\ UNCHANGED <<server, api_key, firecrawl_app, exa, last, constructed,
                   missing_reports, issued, terminal_seen, fmt_kind, fmt_in, fmt_out>>

\* what the run of a websearch tool leaves behind
WebsearchRan(t, args, resp, inv) ==
    /\ pending' = [pending EXCEPT ![t] = @ - 1]
    /\ last' = Done(t, args, resp, inv, FALSE)
    /\ UNCHANGED <<server, api_key, firecrawl_app, exa, calls, constructed,
                   missing_reports, issued, terminal_seen, fmt_kind, fmt_in, fmt_out>>

Run_search_web ==
    /\ pending["search_web"] > 0
    /\ \E num_results \in NumResultsArgs, resp \in SearchResponses :
         WebsearchRan("search_web", [query |-> "q", num_results |-> num_results], resp,
                      search_web("q", num_results, resp))

Run_advanced_search_web ==
    /\ pending["advanced_search_web"] > 0
    /\ \E num_results \in NumResultsArgs,
          include_domains \in {None, Some(<< >>), Some(<<"example.com">>)},
          include_text \in {None, Some("open source")},
          max_age_days \in {None, Some(0), Some(30)},
          now \in Clock, resp \in AdvancedSearchResponses :
         WebsearchRan("advanced_search_web",
                      [query |-> "q", num_results |-> num_results,
                       include_domains |-> include_domains,
                       include_text |-> include_text,
                       max_age_days |-> max_age_days, now |-> now],
                      resp,
                      advanced_search_web("q", num_results, include_domains,
                                          include_text, max_age_days, now, resp))

\* what the run of a firecrawl tool leaves behind
FirecrawlRan(t, args, resp, inv, started, terminal) ==
    /\ pending' = [pending EXCEPT ![t] = @ - 1]
    /\ firecrawl_app' = get_firecrawl_app.app
    /\ constructed' = constructed + (IF get_firecrawl_app.built THEN 1 ELSE 0)
    /\ last' = Done(t, args, resp, inv, get_firecrawl_app.built)
    /\ missing_reports' = missing_reports + (IF ReportsMissingKey(inv) THEN 1 ELSE 0)
    /\ issued' = issued \cup started
    /\ terminal_seen' = terminal_seen \cup terminal
    /\ UNCHANGED <<server, api_key, exa, calls, fmt_kind, fmt_in, fmt_out>>

Run_scrape_url ==
    /\ pending["scrape_url"] > 0
    /\ \E resp \in ScrapeResponses :
         FirecrawlRan("scrape_url",
                      [url |-> "https://a.example", formats |-> <<"markdown">>], resp,
                      scrape_url("https://a.example", <<"markdown">>, resp), {}, {})

Run_crawl_website ==
    /\ pending["crawl_website"] > 0
    /\ \E limit \in {5, 10}, resp \in CrawlResponses :
         LET inv == crawl_website("https://a.example", limit, 2, <<"markdown">>, resp)
         IN  FirecrawlRan("crawl_website",
                          [url |-> "https://a.example", limit |-> limit, max_depth |-> 2,
                           formats |-> <<"markdown">>],
                          resp, inv, StartedJobs(resp, inv), {})

Run_check_crawl_status ==
    /\ pending["check_crawl_status"] > 0
    /\ \E job_id \in JobIds, resp \in StatusResponses :
         LET inv == check_crawl_status(job_id, resp)
         IN  FirecrawlRan("check_crawl_status", [job_id |-> job_id], resp, inv, {},
                          TerminalJobs(job_id, resp, inv))

Run_map_website ==
    /\ pending["map_website"] > 0
    /\ \E include_subdomains \in BOOLEAN, resp \in MapResponses :
         FirecrawlRan("map_website",
                      [url |-> "https://a.example",
                       include_subdomains |-> include_subdomains],
                      resp, map_website("https://a.example", include_subdomains, resp),
                      {}, {})

Run_extract_structured_data ==
    /\ pending["extract_structured_data"] > 0
    /\ \E resp \in ExtractResponses :
         FirecrawlRan("extract_structured_data",
                      [urls |-> <<"https://a.example">>, prompt |-> "p",
                       schema |-> "schema"],
                      resp,
                      extract_structured_data(<<"https://a.example">>, "p", "schema", resp),
                      {}, {})

Next ==
    \/ \E t \in Tools : Call(t)
    \/ Run_search_web
    \/ Run_advanced_search_web
    \/ Run_scrape_url
    \/ Run_crawl_website
    \/ Run_check_crawl_status
    \/ Run_map_website
    \/ Run_extract_structured_data

Spec == Init /\ [][Next]_vars

----------------------------------------------------------------------------
(* The formatters on their own: a payload of one of the five response     *)
(* kinds is drawn, then formatted.                                         *)

FormatInit ==
    /\ server = "none"
    /\ api_key = None
    /\ firecrawl_app = 0
    /\ exa = "absent"
    /\ pending = [t \in Tools |-> 0]
    /\ calls = 0
    /\ last = NoInvocation
    /\ constructed = 0
    /\ missing_reports = 0
    /\ issued = {}
    /\ terminal_seen = {}
    /\ fmt_out = << >>
    /\ \/ fmt_kind = "search" /\ fmt_in \in SearchPayloads \cup {NoneResp}
       \/ fmt_kind = "scrape" /\ fmt_in \in ScrapePayloads \cup {NoneResp}
       \/ fmt_kind = "crawl_status" /\ fmt_in \in StatusPayloads \cup {NoneResp}
       \/ fmt_kind = "map" /\ fmt_in \in MapPayloads \cup {NoneResp}
       \/ fmt_kind = "extract" /\ fmt_in \in ExtractPayloads \cup {NoneResp}

Formatted(result) ==
    /\ fmt_out = << >>
    /\ fmt_out' = <<result>>
    /\ UNCHANGED <<server, api_key, firecrawl_app, exa, pending, calls, last,
                   constructed, missing_reports, issued, terminal_seen,
                   fmt_kind, fmt_in>>

Format_search ==
    fmt_kind = "search" /\ Formatted(format_search_results(fmt_in))

Format_scrape ==
    fmt_kind = "scrape" /\ Formatted(format_markdown_with_metadata(fmt_in))

Format_crawl_status ==
    fmt_kind = "crawl_status" /\ Formatted(format_crawl_status(fmt_in))

Format_map ==
    fmt_kind = "map" /\ Formatted(format_mapped_links(fmt_in))

Format_extract ==
    fmt_kind = "extract" /\ Formatted(format_extraction(fmt_in))

FormatNext ==
    \/ Format_search
    \/ Format_scrape
    \/ Format_crawl_status
    \/ Format_map
    \/ Format_extract

SpecFormat == FormatInit /\ [][FormatNext]_vars

----------------------------------------------------------------------------
(* Claims about the formatters (SpecFormat) *)

\* the enumerated entries of a search report: the positions of the literal
\* that follows each entry's number
EntryMarks(text) == Positions(text, ".** [")

\* C3: a search response of N >= 1 entries is reported as exactly N
\* enumerated entries, numbered 1..N in the order of the response, each
\* linking its own url under its title or the placeholder, whichever
\* optional fields the entries carry; a response with an empty result
\* sequence is reported as exactly "No results found.".
C3_SearchReportEnumerates ==
    (fmt_kind = "search" /\ fmt_out # << >> /\ fmt_in.kind = "object"
     /\ fmt_in.results # None)
    => LET results == fmt_in.results[1]
           r == fmt_out[1]
       IN  IF results = << >> THEN r = Ok(<<"No results found.">>)
           ELSE /\ r.ok
                /\ Cardinality(EntryMarks(r.val)) = Len(results)
                /\ \A k \in 1..Len(results) :
                     LET p == Nth(EntryMarks(r.val), k)
                     IN  /\ r.val[p - 1] = IntStr(k)
                         /\ r.val[p + 1] = (IF TruthyStr(results[k].title)
                                            THEN results[k].title[1] ELSE "No title")
                         /\ r.val[p + 3] = results[k].url[1]

\* C3 witness: a two-entry response, the first entry with no optional field,
\* the second with all of them, has been formatted
C3_Witness ==
    /\ fmt_kind = "search" /\ fmt_out # << >> /\ fmt_in.kind = "object"
    /\ fmt_in.results # None /\ Len(fmt_in.results[1]) = 2
    /\ fmt_in.results[1][1].title = None /\ fmt_in.results[1][1].summary = None
    /\ fmt_in.results[1][1].published_date = None
    /\ TruthyStr(fmt_in.results[1][2].title) /\ TruthyStr(fmt_in.results[1][2].summary)
    /\ fmt_out[1].ok

\* a payload none of whose optional fields is present: a search response
\* whose entries carry a url only; a scrape, map or extraction payload with
\* no error, body, metadata field, link list or value (the success flag as
\* it comes); a status snapshot with no expiry and no page list
NoOptionalField(kind, p) ==
    /\ p.kind # "none"
    /\ kind = "search" =>
          p.results # None /\ \A i \in 1..Len(p.results[1]) :
              /\ p.results[1][i].title = None
              /\ p.results[1][i].published_date = None
              /\ p.results[1][i].summary = None
    /\ kind = "scrape" =>
          /\ p.error = None
          /\ p.data # None =>
                /\ p.data[1].markdown = None
                /\ p.data[1].metadata # None => p.data[1].metadata[1] = EmptyMetadata
    /\ kind = "crawl_status" => p.expiresAt = None /\ p.data = None
    /\ kind = "map" => p.error = None /\ p.links = None
    /\ kind = "extract" => p.error = None /\ p.data = None

\* C6: for each of the five response kinds, formatting a payload in which
\* every optional field is absent does not raise and yields a non-empty
\* report.
C6_NormalizerTotal ==
    (fmt_out # << >> /\ NoOptionalField(fmt_kind, fmt_in))
    => fmt_out[1].ok /\ NonEmptyText(fmt_out[1].val)

\* C6 witness: a successful map result without a link list has been
\* formatted
C6_Witness ==
    /\ fmt_kind = "map" /\ fmt_out # << >> /\ NoOptionalField(fmt_kind, fmt_in)
    /\ fmt_in.success = Some(TRUE)
    /\ fmt_out[1].ok

\* the page sub-list of a status report: the positions of the literal that
\* precedes each page's url
PageMarks(text) == Positions(text, "   URL: ")

\* the report is the status block of the snapshot: the label, the two
\* counts with 0 for an absent one, the expiry line exactly when a
\* timestamp is there, the page sub-list exactly when pages are there
IsStatusBlock(status, r) ==
    /\ r.ok
    /\ Len(r.val) >= 10
    /\ r.val[1] = "# Crawl Status\n\n"
    /\ r.val[2] = "**Current Status:** "
    /\ r.val[3] = (IF status.status = None THEN "Unknown" ELSE status.status[1])
    /\ r.val[5] = "**Total Pages:** "
    /\ r.val[6] = (IF status.totalCount = None THEN "0" ELSE IntStr(status.totalCount[1]))
    /\ r.val[8] = "**Credits Used:** "
    /\ r.val[9] = (IF status.creditsUsed = None THEN "0" ELSE IntStr(status.creditsUsed[1]))
    /\ IF TruthyStr(status.expiresAt)
       THEN /\ Len(r.val) >= 13
            /\ r.val[11] = "**Expires At:** " /\ r.val[12] = status.expiresAt[1]
       ELSE Positions(r.val, "**Expires At:** ") = {}
    /\ LET pages == IF TruthyList(status.data) THEN status.data[1] ELSE << >>
       IN  /\ Cardinality(PageMarks(r.val)) = Len(pages)
           /\ (Positions(r.val, "\n## Crawled Pages: ") # {}) <=> (pages # << >>)
           /\ \A k \in 1..Len(pages) :
                LET p == Nth(PageMarks(r.val), k)
                    m == pages[k].metadata
                IN  /\ r.val[p - 4] = IntStr(k)
                    /\ r.val[p - 2] = (IF m = None \/ m[1].title = None
                                       THEN "Unknown Title" ELSE m[1].title[1])
                    /\ r.val[p + 1] = (IF m = None \/ m[1].sourceURL = None
                                       THEN "Unknown URL" ELSE m[1].sourceURL[1])

\* C9 as stated: every status snapshot the provider returns, the snapshot
\* with every field absent included, is reported as a status block (an
\* expiry or page list counted present when it is not empty).
C9_EverySnapshotIsBlock ==
    (fmt_kind = "crawl_status" /\ fmt_out # << >> /\ fmt_in.kind = "dict")
    => IsStatusBlock(fmt_in, fmt_out[1])

\* C9 amended: every snapshot holding at least one key is reported as a
\* status block: label (Unknown if absent), total pages and credits used (0
\* if absent), the expiry line iff a non-empty expiry timestamp is there,
\* the page sub-list (1-based, placeholders for an absent title or url) iff
\* a non-empty page list is there; the snapshot holding no key is reported
\* as the one line "Error: Failed to retrieve crawl status.".
C9_NonEmptySnapshotIsBlock ==
    (fmt_kind = "crawl_status" /\ fmt_out # << >> /\ fmt_in.kind = "dict")
    => IF EmptyStatus(fmt_in)
       THEN fmt_out[1] = Ok(<<"Error: Failed to retrieve crawl status.">>)
       ELSE IsStatusBlock(fmt_in, fmt_out[1])

\* C9 witness: a snapshot with an expiry and two pages, one without
\* metadata, has been formatted
C9_Witness ==
    /\ fmt_kind = "crawl_status" /\ fmt_out # << >> /\ fmt_in.kind = "dict"
    /\ TruthyStr(fmt_in.expiresAt) /\ fmt_in.status = None
    /\ fmt_in.data # None /\ Len(fmt_in.data[1]) = 2
    /\ fmt_in.data[1][1].metadata = None /\ fmt_in.data[1][2].metadata # None
    /\ fmt_out[1].ok

----------------------------------------------------------------------------
(* Claims about the tools (Spec) *)

\* C1: every tool invocation, whatever the client does (any payload, None,
\* an exception with a message, the missing credential at the construction
\* of the client), ends by returning one str; no exception leaves the tool.
C1_ToolsReturnText ==
    last.tool # "none"
    => /\ last.outcome = "returned"
       /\ Len(last.report) >= 1
       /\ last.caught => last.report[Len(last.report)] # ""

\* C1 witness: an invocation whose try block raised the missing-credential
\* error has completed
C1_Witness ==
    /\ last.tool = "scrape_url"
    /\ last.caught
    /\ last.report = <<"An error occurred while scraping ", "https://a.example", ": ",
                       MissingKeyMsg>>

IsCrawlStartError(report) ==
    /\ report[1] = "Error: Failed to start crawl job. "
    /\ Positions(report, "# Crawl Job Started\n\n") = {}
    /\ Positions(report, "**Job ID:** ") = {}

\* the report of a started crawl: the job id and the instruction to poll
IsCrawlStarted(report, job_id) ==
    /\ report[1] = "# Crawl Job Started\n\n"
    /\ \E i \in 1..Len(report) - 1 :
         report[i] = "**Job ID:** " /\ report[i + 1] = job_id
    /\ report[Len(report)] =
         "To check the status of this crawl, use the 'check_crawl_status' tool with this Job ID."

\* C4: when the response to the crawl-start request has no jobId or an
\* empty one, crawl_website returns the error report "Error: Failed to
\* start crawl job. ..." and no report bearing a job id; when it has a
\* jobId, the report holds exactly that id and the instruction to poll.
C4_CrawlStartReport ==
    (last.tool = "crawl_website" /\ last.sent # << >> /\ last.resp.kind = "dict")
    => IF last.resp.jobId = None \/ last.resp.jobId = Some("")
       THEN IsCrawlStartError(last.report)
       ELSE IsCrawlStarted(last.report, last.resp.jobId[1])

\* C4 witness: a crawl start answered with an empty jobId has completed
C4_Witness ==
    /\ last.tool = "crawl_website" /\ last.sent # << >> /\ last.resp.kind = "dict"
    /\ last.resp.jobId = Some("")
    /\ last.report[1] = "Error: Failed to start crawl job. "

\* C5: FirecrawlApp is constructed at most once, and every invocation that
\* gets a handle gets the one constructed first, which is the handle the
\* module keeps, however the invocations in flight are ordered.
C5_ClientBuiltOnce ==
    /\ constructed <= 1
    /\ firecrawl_app \in {0, 1}
    /\ firecrawl_app = 1 <=> constructed = 1
    /\ (last.tool \in FirecrawlTools /\ last.app # 0)
       => last.app = 1 /\ firecrawl_app = 1

\* C5 witness: with another invocation still in flight, an invocation has
\* completed on the handle an earlier one constructed
C5_Witness ==
    /\ last.tool \in FirecrawlTools
    /\ ~last.built /\ last.app = 1
    /\ constructed = 1
    /\ Completed >= 2 /\ InFlight >= 1

\* C7 as stated: in a process without the credential, at most one
\* invocation reports the missing-credential error.
C7_MissingKeyReportedOnce ==
    (server = "firecrawl" /\ api_key = None) => missing_reports <= 1

\* C7 amended: in a process without the credential the failure occurs in
\* get_firecrawl_app at every use: no client is ever constructed, no
\* request is sent, and every invocation, not only the first, returns
\* its error report ending in the missing-credential message.
C7_MissingKeyReportedEachCall ==
    (server = "firecrawl" /\ api_key = None)
    => /\ constructed = 0 /\ firecrawl_app = 0
       /\ missing_reports = Completed
       /\ last.tool # "none"
          => /\ last.caught /\ last.sent = << >>
             /\ last.report[Len(last.report)] = MissingKeyMsg

\* C7 witness: two invocations have reported the missing credential
C7_Witness ==
    /\ server = "firecrawl" /\ api_key = None
    /\ missing_reports >= 2
    /\ last.tool = "check_crawl_status"

\* C8: check_crawl_status keeps nothing between calls: each call on a
\* process holding the credential sends exactly one status query, for its
\* own job_id, and returns the formatting of what that query returned (the
\* error it raised, in the except clause's sentence), whatever was checked
\* or started before; without the credential there is no client and no
\* query (C7).
C8_StatusQueriedFresh ==
    last.tool = "check_crawl_status"
    => IF api_key = None THEN last.sent = << >>
       ELSE /\ last.sent = <<[method |-> "check_crawl_status", app |-> firecrawl_app,
                              job_id |-> last.args.job_id]>>
            /\ IF last.resp.kind = "raise"
               THEN last.report =
                      <<"An error occurred while checking the crawl status for job ",
                        last.args.job_id, ": ", last.resp.msg>>
               ELSE last.report = format_crawl_status(last.resp).val

\* C8 witness: a job id no crawl_website call returned, already reported
\* completed or failed by an earlier check, has been checked again and the
\* new snapshot, still scraping, rendered
C8_Witness ==
    /\ last.tool = "check_crawl_status"
    /\ last.args.job_id \notin issued
    /\ last.args.job_id \in terminal_seen
    /\ last.resp.kind = "dict" /\ last.resp.status = Some("scraping")
    /\ last.report[3] = "scraping"

\* C10 as stated: a max_age_days that is present, 0 included, is sent as
\* start_published_date = now - max_age_days days in the form of the
\* strftime pattern; an absent one attaches no start_published_date.
C10_MaxAgeTranslated ==
    last.tool = "advanced_search_web"
    => /\ Len(last.sent) = 1
       /\ last.sent[1].kwargs.start_published_date =
            (IF last.args.max_age_days = None THEN None
             ELSE Some([date |-> last.args.now.day - last.args.max_age_days[1],
                        time |-> last.args.now.second, suffix |-> "Z"]))

====
